---- MODULE Spec2Model ----
(***************************************************************************)
(* Player-statistics aggregation of premadegraph:                          *)
(*   - normalizeOpScore and normalizePlayersByPuuid (full rebuild),        *)
(*   - addNewPlayersFromMatches,                                           *)
(*   - the express handlers POST /api/save-match and /api/save-player.     *)
(* JavaScript numbers are modelled as exact rationals extended with NaN    *)
(* and the two infinities; IEEE-754 rounding of finite values is not       *)
(* modelled.                                                               *)
(***************************************************************************)
EXTENDS Integers, Sequences, FiniteSets, TLC

(* ------------------------------------------------------------------ *)
(* JavaScript numbers                                                   *)
(* ------------------------------------------------------------------ *)

Abs(x) == IF x < 0 THEN -x ELSE x

RECURSIVE Gcd(_, _)
Gcd(a, b) == IF b = 0 THEN a ELSE Gcd(b, a % b)

\* a finite number n/d in lowest terms, d > 0
Fin(n, d) ==
    LET g == Gcd(Abs(n), Abs(d))
        s == IF d < 0 THEN -1 ELSE 1
    IN [k |-> "fin", n |-> (s * n) \div g, d |-> (s * d) \div g]

Int2Num(i) == [k |-> "fin", n |-> i, d |-> 1]
NaN    == [k |-> "nan", n |-> 0, d |-> 1]
\* the value of a field the JSON document does not have
Undef  == [k |-> "undef", n |-> 0, d |-> 1]
\* a NULL in a REAL column
SqlNull == [k |-> "null", n |-> 0, d |-> 1]
PosInf == [k |-> "inf", n |-> 1, d |-> 1]
NegInf == [k |-> "inf", n |-> -1, d |-> 1]
Zero   == Int2Num(0)

IsFin(a) == a.k = "fin"
\* undefined converts to NaN in arithmetic and comparisons
IsNaN(a) == a.k \in {"nan", "undef"}
\* x || 0 : undefined, NaN and 0 are falsy
OrZero(a) == IF a.k \in {"nan", "undef", "null"} THEN Zero ELSE a
\* a number read from a REAL/INTEGER column: NULL arrives as null, and null is 0 in arithmetic
FromSql(a) == IF a.k = "null" THEN Zero ELSE a
\* a number bound to a REAL column: NaN is stored as NULL
ToSql(a) == IF a.k \in {"nan", "undef"} THEN SqlNull ELSE a
Sign(a)  == IF a.n > 0 THEN 1 ELSE IF a.n < 0 THEN -1 ELSE 0

\* a + b
NumAdd(a, b) ==
    IF IsNaN(a) \/ IsNaN(b) THEN NaN
    ELSE IF IsFin(a) /\ IsFin(b) THEN Fin(a.n * b.d + b.n * a.d, a.d * b.d)
    ELSE IF IsFin(a) THEN b
    ELSE IF IsFin(b) THEN a
    ELSE IF a.n = b.n THEN a ELSE NaN

\* -a
NumNeg(a) == IF IsNaN(a) THEN NaN ELSE [a EXCEPT !.n = -a.n]

\* a - b
NumSub(a, b) == NumAdd(a, NumNeg(b))

\* a * b
NumMul(a, b) ==
    IF IsNaN(a) \/ IsNaN(b) THEN NaN
    ELSE IF IsFin(a) /\ IsFin(b) THEN Fin(a.n * b.n, a.d * b.d)
    ELSE IF Sign(a) * Sign(b) = 0 THEN NaN
    ELSE IF Sign(a) * Sign(b) > 0 THEN PosInf ELSE NegInf

\* a / b ; x/0 is an infinity or NaN, never an exception
NumDiv(a, b) ==
    IF IsNaN(a) \/ IsNaN(b) THEN NaN
    ELSE IF IsFin(a) /\ IsFin(b) THEN
        IF b.n # 0 THEN Fin(a.n * b.d, a.d * b.n)
        ELSE IF a.n = 0 THEN NaN
        ELSE IF a.n > 0 THEN PosInf ELSE NegInf
    ELSE IF IsFin(a) THEN Zero
    ELSE IF IsFin(b) THEN (IF Sign(b) < 0 THEN NumNeg(a) ELSE a)
    ELSE NaN

\* a <= b, a < b, a >= b, a > b ; every comparison with NaN is false
NumLe(a, b) ==
    /\ ~IsNaN(a) /\ ~IsNaN(b)
    /\ IF IsFin(a) /\ IsFin(b) THEN a.n * b.d <= b.n * a.d
       ELSE IF IsFin(a) THEN b.n > 0
       ELSE IF IsFin(b) THEN a.n < 0
       ELSE a.n <= b.n
NumLt(a, b) == NumLe(a, b) /\ a # b
NumGe(a, b) == NumLe(b, a)
NumGt(a, b) == NumLt(b, a)

\* the integer part of a finite a, towards -oo
MathFloor(a) == Int2Num(a.n \div a.d)

\* Math.round(a) for a finite a: the nearest integer, halves towards +oo
MathRound(a) == Int2Num((2 * a.n + a.d) \div (2 * a.d))

(* ------------------------------------------------------------------ *)
(* Score model                                                          *)
(* ------------------------------------------------------------------ *)

\* the 11 anchors, highest first; score and grade in hundredths
thresholds ==
    << [score |-> Fin(125211, 100), grade |-> Int2Num(10)],
       [score |-> Fin(87465, 100),  grade |-> Int2Num(9)],
       [score |-> Fin(75102, 100),  grade |-> Int2Num(8)],
       [score |-> Fin(67550, 100),  grade |-> Int2Num(7)],
       [score |-> Int2Num(600),     grade |-> Int2Num(6)],
       [score |-> Fin(51291, 100),  grade |-> Int2Num(5)],
       [score |-> Fin(42493, 100),  grade |-> Int2Num(4)],
       [score |-> Int2Num(350),     grade |-> Int2Num(3)],
       [score |-> Int2Num(280),     grade |-> Int2Num(2)],
       [score |-> Int2Num(220),     grade |-> Int2Num(1)],
       [score |-> Fin(14692, 100),  grade |-> Int2Num(0)] >>

TopAnchor    == thresholds[1].score
BottomAnchor == thresholds[Len(thresholds)].score

\* the interpolation of one bracket, rounded to 2 decimals
Interpolate(rawOpScore, upper, lower) ==
    LET scoreRange  == NumSub(upper.score, lower.score)
        gradeRange  == NumSub(upper.grade, lower.grade)
        scoreOffset == NumSub(rawOpScore, lower.score)
        interpolatedGrade ==
            NumAdd(lower.grade, NumMul(NumDiv(scoreOffset, scoreRange), gradeRange))
    IN NumDiv(MathRound(NumMul(interpolatedGrade, Int2Num(100))), Int2Num(100))

\* the bracket loop from index i on; "none" when no bracket matches
RECURSIVE BracketFrom(_, _)
BracketFrom(rawOpScore, i) ==
    IF i > Len(thresholds) - 1 THEN [hit |-> FALSE, at |-> 0, value |-> Zero]
    ELSE IF NumLe(rawOpScore, thresholds[i].score) /\ NumGt(rawOpScore, thresholds[i + 1].score)
         THEN [hit |-> TRUE, at |-> i,
               value |-> Interpolate(rawOpScore, thresholds[i], thresholds[i + 1])]
         ELSE BracketFrom(rawOpScore, i + 1)

\* which return statement of normalizeOpScore produces the result
NormalizeBranch(rawOpScore) ==
    IF NumGe(rawOpScore, TopAnchor) THEN "clampTop"
    ELSE IF NumLe(rawOpScore, BottomAnchor) THEN "clampBottom"
    ELSE IF BracketFrom(rawOpScore, 1).hit THEN "bracket"
    ELSE "fallback"

\* normalizeOpScore without its two clamps
BracketsOnly(rawOpScore) ==
    IF BracketFrom(rawOpScore, 1).hit THEN BracketFrom(rawOpScore, 1).value ELSE Zero

normalizeOpScore(rawOpScore) ==
    IF NumGe(rawOpScore, TopAnchor) THEN Int2Num(10)
    ELSE IF NumLe(rawOpScore, BottomAnchor) THEN Zero
    ELSE IF BracketFrom(rawOpScore, 1).hit THEN BracketFrom(rawOpScore, 1).value
    ELSE Zero

(* ------------------------------------------------------------------ *)
(* Match documents                                                      *)
(* ------------------------------------------------------------------ *)

\* a string field the JSON document does not have; `${undefined}` prints "undefined"
Undefined == "undefined"
Falsy(str) == str = Undefined \/ str = ""
\* a NULL in a TEXT column
NullText == "<NULL>"

\* one entry of data.info.participants; isNull marks a JSON null in the array
Part(puuid, gameName, tagline, kills, deaths, assists, goldEarned, visionScore) ==
    [isNull |-> FALSE, puuid |-> puuid,
     riotIdGameName |-> gameName, riotIdTagline |-> tagline,
     kills |-> kills, deaths |-> deaths, assists |-> assists,
     goldEarned |-> goldEarned, visionScore |-> visionScore]

NullEntry == [Part(Undefined, Undefined, Undefined, Undef, Undef, Undef, Undef, Undef)
                 EXCEPT !.isNull = TRUE]

\* a strong game, a weak game, a game without gold, a record without statistics
Strong(puuid, gameName, tagline) ==
    Part(puuid, gameName, tagline, Int2Num(5), Int2Num(2), Int2Num(10), Int2Num(12000), Int2Num(20))
Weak(puuid, gameName, tagline) ==
    Part(puuid, gameName, tagline, Int2Num(1), Int2Num(8), Int2Num(2), Int2Num(6000), Int2Num(0))
NoGold(puuid, gameName, tagline) ==
    Part(puuid, gameName, tagline, Int2Num(3), Int2Num(3), Int2Num(3), Int2Num(0), Int2Num(10))
Bare(puuid) ==
    Part(puuid, Undefined, Undefined, Undef, Undef, Undef, Undef, Undef)

\* a lineup played at every duration of Durations
MixedLineup == << Strong("p1", "Alice", "EUW"), NoGold("p2", "Bob", "EUW") >>

\* a complete match record: ten participants, each with a puuid of its own
FullLineup ==
    << Strong("p1", "N1", "EUW"),
       Weak("p2", "N2", "EUW"),
       Strong("p3", "N3", "EUW"),
       Weak("p4", "N4", "EUW"),
       Strong("p5", "N5", "EUW"),
       Weak("p6", "N6", "EUW"),
       Strong("p7", "N7", "EUW"),
       Weak("p8", "N8", "EUW"),
       Strong("p9", "N9", "EUW"),
       Weak("p10", "N10", "EUW") >>

\* lineups played as 30 minute games: a second display name, an entry without puuid
\* and a record without statistics; a null entry in the middle
SecondName   == << Weak("p1", "Alice", "NA1"), Strong("", "Dan", "EUW"), Bare("p2") >>
NullInMiddle == << Strong("p1", "Alice", "EUW"), NullEntry, Weak("p2", "Bob", "EUW") >>
Lineups      == { SecondName, NullInMiddle }

\* data.info.gameDuration in seconds: a 30 minute game, zero, negative, absent
Durations == { Int2Num(1800), Int2Num(0), Int2Num(-600), Undef }

\* a file of the match directory:
\*   "unparseable"     JSON.parse throws
\*   "noInfo"          valid JSON without info
\*   "noParticipants"  info without participants
\*   "match"           info.participants is an array
MatchDoc(gameDuration, participants) ==
    [kind |-> "match", gameDuration |-> gameDuration, participants |-> participants]
Malformed(kind) == [kind |-> kind, gameDuration |-> Undef, participants |-> << >>]

MalformedKinds == {"unparseable", "noInfo", "noParticipants"}
MatchDocs  == { MatchDoc(g, MixedLineup) : g \in Durations }
                \cup { MatchDoc(Int2Num(1800), l) : l \in Lineups }
\* complete match records
CompleteDocs == { MatchDoc(Int2Num(1800), FullLineup) }
\* what a client can POST: JSON.stringify always writes parseable text
Bodies     == MatchDocs \cup { Malformed("noInfo"), Malformed("noParticipants") }
Documents  == Bodies \cup { Malformed("unparseable") }

IsMalformed(doc) == doc.kind \in MalformedKinds

\* no file under that name
NoFile == [kind |-> "absent", gameDuration |-> Undef, participants |-> << >>]

MaxFiles == 2
\* the names readdirSync can list, in listing order
FileIds == 1 .. MaxFiles

\* the requests clients send to /api/save-match: each body carries its own
\* metadata.matchId, the k-th body of the list that of file ((k - 1) % MaxFiles) + 1
Posted ==
    << MatchDoc(Int2Num(1800), MixedLineup),
       MatchDoc(Int2Num(1800), SecondName),
       MatchDoc(Int2Num(0), MixedLineup),
       MatchDoc(Int2Num(1800), NullInMiddle),
       MatchDoc(Undef, MixedLineup),
       Malformed("noInfo"),
       MatchDoc(Int2Num(-600), MixedLineup),
       Malformed("noParticipants") >>
Requests ==
    { [matchId |-> ((k - 1) % MaxFiles) + 1, body |-> Posted[k]] : k \in 1 .. Len(Posted) }

(* ------------------------------------------------------------------ *)
(* The players table                                                    *)
(* ------------------------------------------------------------------ *)

\* a row of players(puuid, names, feedscore, opscore, country, match_count);
\* names holds JSON.stringify of an array of strings, kept here as that array
Row(puuid, names, feedscore, opscore, country, match_count) ==
    [puuid |-> puuid, names |-> names, feedscore |-> feedscore, opscore |-> opscore,
     country |-> country, match_count |-> match_count]

\* UPDATE players SET opscore = 0, feedscore = 0, match_count = 0 WHERE 1=1
ResetScores(table) ==
    { [r EXCEPT !.opscore = Zero, !.feedscore = Zero, !.match_count = 0] : r \in table }

\* INSERT OR IGNORE: the row of the same puuid stays
InsertOrIgnore(table, row) ==
    IF \E r \in table : r.puuid = row.puuid THEN table ELSE table \cup { row }

\* INSERT OR REPLACE INTO players ... : the row of the same puuid goes, the new one comes
InsertOrReplace(table, row) ==
    { r \in table : r.puuid # row.puuid } \cup { row }

(* ------------------------------------------------------------------ *)
(* Full rebuild: normalizePlayersByPuuid                                *)
(* ------------------------------------------------------------------ *)

\* `${p.riotIdGameName || 'Unknown'}#${p.riotIdTagline || 'Unknown'}`
DisplayName(p) ==
    (IF Falsy(p.riotIdGameName) THEN "Unknown" ELSE p.riotIdGameName)
        \o "#" \o (IF Falsy(p.riotIdTagline) THEN "Unknown" ELSE p.riotIdTagline)

\* deaths - (kills + assists) * 0.35
FeedScore(p) ==
    NumSub(OrZero(p.deaths),
           NumMul(NumAdd(OrZero(p.kills), OrZero(p.assists)), Fin(35, 100)))

\* kills + assists * 0.965 + goldEarned / gameDurationMinutes + visionScore * 0.15
RawOpScore(p, gameDurationMinutes) ==
    NumAdd(NumAdd(NumAdd(OrZero(p.kills),
                         NumMul(OrZero(p.assists), Fin(965, 1000))),
                  NumDiv(OrZero(p.goldEarned), gameDurationMinutes)),
           NumMul(OrZero(p.visionScore), Fin(15, 100)))

\* gameDurationSeconds / 60
DurationMinutes(doc) == NumDiv(doc.gameDuration, Int2Num(60))

SeqIndex(seq, x) == IF \E i \in 1 .. Len(seq) : seq[i] = x
                    THEN CHOOSE i \in 1 .. Len(seq) : seq[i] = x ELSE 0

\* the name of the first match is kept, later ones are dropped
SetKeep(seq, x) == seq

\* Set.add: insertion order, no duplicates
SetAdd(seq, x) == IF SeqIndex(seq, x) # 0 THEN seq ELSE Append(seq, x)

\* playersMap is kept as the sequence of its entries in insertion order
MapIndex(map, puuid) ==
    IF \E i \in 1 .. Len(map) : map[i].puuid = puuid
    THEN CHOOSE i \in 1 .. Len(map) : map[i].puuid = puuid ELSE 0

\* the merge branch without player.match_count += 1
ObserveWithoutCount(acc, p, gameDurationMinutes) ==
    LET i == MapIndex(acc.playersMap, p.puuid)
    IN IF i = 0
       THEN [acc EXCEPT
               !.playersMap = Append(@, [puuid |-> p.puuid,
                                         names |-> << DisplayName(p) >>,
                                         feedscoreSum |-> FeedScore(p),
                                         opscoreSum |-> RawOpScore(p, gameDurationMinutes),
                                         match_count |-> 1,
                                         country |-> NullText]),
               !.totalPlayers = @ + 1]
       ELSE [acc EXCEPT
               !.playersMap[i].names = SetAdd(@, DisplayName(p)),
               !.playersMap[i].feedscoreSum = NumAdd(@, FeedScore(p)),
               !.playersMap[i].opscoreSum = NumAdd(@, RawOpScore(p, gameDurationMinutes))]

\* the body of the participant loop for one participant that has a puuid
Observe(acc, p, gameDurationMinutes) ==
    LET i == MapIndex(acc.playersMap, p.puuid)
        feedscore  == FeedScore(p)
        rawOpScore == RawOpScore(p, gameDurationMinutes)
    IN IF i = 0
       THEN [acc EXCEPT
               !.playersMap = Append(@, [puuid |-> p.puuid,
                                         names |-> << DisplayName(p) >>,
                                         feedscoreSum |-> feedscore,
                                         opscoreSum |-> rawOpScore,
                                         match_count |-> 1,
                                         country |-> NullText]),
               !.totalPlayers = @ + 1]
       ELSE [acc EXCEPT
               !.playersMap[i].names = SetAdd(@, DisplayName(p)),
               !.playersMap[i].feedscoreSum = NumAdd(@, feedscore),
               !.playersMap[i].opscoreSum = NumAdd(@, rawOpScore),
               !.playersMap[i].match_count = @ + 1]

\* for (const p of data.info.participants) from entry i on; reading p.puuid of a
\* null entry throws, which ends the loop of this file in its catch.
\* (totalMatches is never negative: the test only makes TLC evaluate acc entry by entry)
RECURSIVE ParticipantLoop(_, _, _, _)
ParticipantLoop(acc, participants, i, gameDurationMinutes) ==
    IF i > Len(participants) \/ acc.totalMatches < 0 THEN acc
    ELSE IF participants[i].isNull THEN acc
    ELSE IF Falsy(participants[i].puuid)
         THEN ParticipantLoop(acc, participants, i + 1, gameDurationMinutes)
         ELSE ParticipantLoop(Observe(acc, participants[i], gameDurationMinutes),
                              participants, i + 1, gameDurationMinutes)

\* totalMatches++ moved ahead of the structure check
ProcessFileCountFirst(acc, doc) ==
    IF doc.kind = "unparseable" THEN acc
    ELSE IF doc.kind # "match" THEN [acc EXCEPT !.totalMatches = @ + 1]
    ELSE ParticipantLoop([acc EXCEPT !.totalMatches = @ + 1],
                         doc.participants, 1, DurationMinutes(doc))

\* the body of the file loop for one file
ProcessFile(acc, doc) ==
    IF doc.kind # "match" THEN acc
    ELSE ParticipantLoop([acc EXCEPT !.totalMatches = @ + 1],
                         doc.participants, 1, DurationMinutes(doc))

\* the files readdirSync lists, in listing order
ListFiles(dir) == SelectSeq([i \in FileIds |-> i], LAMBDA i : dir[i].kind # "absent")

RECURSIVE FileLoop(_, _, _, _)
FileLoop(acc, dir, files, i) ==
    IF i > Len(files) \/ acc.totalMatches < 0 THEN acc
    ELSE FileLoop(ProcessFile(acc, dir[files[i]]), dir, files, i + 1)

EmptyAcc == [playersMap |-> << >>, totalMatches |-> 0, totalPlayers |-> 0]

\* the accumulation of one run over the directory
Accumulate(dir) == FileLoop(EmptyAcc, dir, ListFiles(dir), 1)

\* normalization applied to a value that is already a grade
StoredOpScoreTwice(data) ==
    normalizeOpScore(normalizeOpScore(NumDiv(data.opscoreSum, Int2Num(data.match_count))))

\* the opscore written for an aggregate
StoredOpScore(data) ==
    normalizeOpScore(NumDiv(data.opscoreSum, Int2Num(data.match_count)))

\* the feedscore written for an aggregate
StoredFeedScore(data) ==
    NumDiv(data.feedscoreSum, Int2Num(data.match_count))

\* the row stmt.run writes for one entry of playersMap
AggregateRow(data) ==
    Row(data.puuid, data.names, ToSql(StoredFeedScore(data)), ToSql(StoredOpScore(data)),
        data.country, data.match_count)

\* the statements one run queues on its serialized connection
RunStatements(acc) ==
    << [op |-> "reset", row |-> << >>] >>
    \o [i \in 1 .. Len(acc.playersMap) |->
            [op |-> "insert", row |-> AggregateRow(acc.playersMap[i])]]
    \o << [op |-> "finalize", row |-> << >>] >>

\* the effect of one statement on the table
Execute(table, stmt) ==
    IF stmt.op = "reset" THEN ResetScores(table)
    ELSE IF stmt.op = "insert" THEN InsertOrReplace(table, stmt.row)
    ELSE table

(* ------------------------------------------------------------------ *)
(* addNewPlayersFromMatches                                             *)
(* ------------------------------------------------------------------ *)

GoldDivisor == 560

\* the row inserted for a participant whose puuid is not in the table yet
NewPlayerRow(p) ==
    Row(p.puuid,
        << p.riotIdGameName \o "#" \o p.riotIdTagline >>,
        ToSql(NumSub(p.deaths, NumMul(NumAdd(p.kills, p.assists), Fin(35, 100)))),
        ToSql(NumAdd(NumAdd(NumAdd(p.kills, NumMul(p.assists, Fin(965, 1000))),
                            NumDiv(p.goldEarned, Int2Num(GoldDivisor))),
                     NumMul(p.visionScore, Fin(15, 100)))),
        " ", 1)

\* the participant loop of one file from entry i on; acc.crashed when an entry throws
RECURSIVE AddLoop(_, _, _)
AddLoop(acc, participants, i) ==
    IF i > Len(participants) \/ acc.crashed THEN acc
    ELSE IF participants[i].isNull THEN [acc EXCEPT !.crashed = TRUE]
    ELSE IF participants[i].puuid \in acc.existingPuuids
         THEN AddLoop(acc, participants, i + 1)
         ELSE AddLoop([acc EXCEPT
                         !.inserts = Append(@, NewPlayerRow(participants[i])),
                         !.existingPuuids = @ \cup { participants[i].puuid }],
                      participants, i + 1)

\* the file loop; there is no try/catch: the first file that throws ends the script
RECURSIVE AddFileLoop(_, _, _, _)
AddFileLoop(acc, dir, files, i) ==
    IF i > Len(files) \/ acc.crashed THEN acc
    ELSE IF dir[files[i]].kind # "match"
         THEN [acc EXCEPT !.crashed = TRUE]
         ELSE AddFileLoop(AddLoop(acc, dir[files[i]].participants, 1), dir, files, i + 1)

\* the rows the script queues for insertion, and whether it died on the way
AddPlan(table, dir) ==
    AddFileLoop([inserts |-> << >>, existingPuuids |-> { r.puuid : r \in table },
                 crashed |-> FALSE],
                dir, ListFiles(dir), 1)

(* ------------------------------------------------------------------ *)
(* State                                                                *)
(* ------------------------------------------------------------------ *)

VARIABLES
    dir,        \* the match directory: file name -> document, NoFile when absent
    refined,    \* the players table of playersrefined.db, a set of rows
    rebuild,    \* the run of normalizePlayersByPuuid in progress, if any
    hist,       \* the finished runs since another writer last touched directory or table
    raw,        \* the players table of players.db, rows in rowid order
    pending,    \* save-player requests between their SELECT and their write
    ledger,     \* per display name: how many save-player requests wrote, their sums and players
    normIn,     \* an argument of normalizeOpScore
    normOut,    \* its result, once applied
    second,     \* a run of normalizePlayersByPuuid requested while one is in progress
    reply,      \* the last response of the server
    sent,       \* per match id, the body of the first save-match request that carried it
    graph       \* the last output of the graph builder and what it was built from

rebuildVars == << dir, refined, rebuild, hist >>
upsertVars  == << raw, pending, ledger >>
serverVars  == << second, reply, sent, graph >>
normVars    == << normIn, normOut >>

vars == << rebuildVars, upsertVars, normVars, serverVars >>

Idle == [pc |-> "idle", playersMap |-> << >>, queue |-> << >>,
         files |-> 0, totalMatches |-> 0, totalPlayers |-> 0, disturbed |-> FALSE,
         failed |-> FALSE]

\* runs: how many runs finished in a row (2 stands for two or more); after: the table
\* when the first of them finished; files, totalMatches, totalPlayers: what the last
\* of them logged
NoHist == [runs |-> 0, after |-> {}, files |-> 0, totalMatches |-> 0, totalPlayers |-> 0]

NoNum == [k |-> "none", n |-> 0, d |-> 1]

\* no response yet; a response is the handler, its status and the request it answers
NoRequest == [matchId |-> 0, body |-> NoFile]
NoReply   == [handler |-> "none", status |-> 0, request |-> NoRequest]

\* no graph built yet; a graph is its nodes, the weight of each of its edges (an edge
\* is a set of two player identifiers), the arguments and the directory it was built from
NoGraph == [built |-> FALSE, nodes |-> {}, weight |-> [e \in {} |-> 0],
            minWeight |-> 0, connectedOnly |-> FALSE, corpus |-> << >>]

\* the display names save-player requests carry
Names == { "Alice#EUW", "Bob#EUW" }

\* the player identifiers of the participants the clients build their requests from
PlayerIds == { "p1", "p2" }

NoLedger ==
    [name \in Names |-> [count |-> 0, feedscore |-> Zero, opscore |-> Zero, puuids |-> {}]]

\* the classifier's answers
Countries == { "HU" }

InitCommon ==
    /\ dir = [i \in FileIds |-> NoFile]
    /\ refined = {}
    /\ rebuild = Idle
    /\ hist = NoHist
    /\ raw = << >>
    /\ pending = << >>
    /\ ledger = NoLedger
    /\ normIn = NoNum
    /\ normOut = NoNum
    /\ second = Idle
    /\ reply = NoReply
    /\ sent = [id \in FileIds |-> NoFile]
    /\ graph = NoGraph

Init == InitCommon

\* a writer other than the run touched the table or the directory
Disturb ==
    /\ hist' = NoHist
    /\ rebuild' = [rebuild EXCEPT !.disturbed = (rebuild.pc = "running")]

(* ------------------------------------------------------------------ *)
(* POST /api/save-match                                                 *)
(* ------------------------------------------------------------------ *)

\* a request without metadata.matchId: 400, nothing is written
SaveMatchNoId ==
    /\ UNCHANGED << dir, refined, rebuild, hist, upsertVars, normVars, serverVars >>

\* a request for a match whose file exists: 200, the body is not looked at
SaveMatchExists(matchId) ==
    /\ dir[matchId].kind # "absent"
    /\ UNCHANGED << dir, refined, rebuild, hist, upsertVars, normVars, serverVars >>

\* a request for a match that has no file yet: 201, the body becomes the file
SaveMatchNew(matchId, body) ==
    /\ dir[matchId].kind = "absent"
    /\ dir' = [dir EXCEPT ![matchId] = body]
    /\ Disturb
    /\ UNCHANGED << refined, upsertVars, normVars, serverVars >>

\* a file that does not parse lands in the directory (a cut-off write of the crawler)
BrokenFileAppears(matchId) ==
    /\ dir[matchId].kind = "absent"
    /\ dir' = [dir EXCEPT ![matchId] = Malformed("unparseable")]
    /\ Disturb
    /\ UNCHANGED << refined, upsertVars, normVars, serverVars >>

(* ------------------------------------------------------------------ *)
(* The run of normalizePlayersByPuuid                                   *)
(* ------------------------------------------------------------------ *)

\* a run after its synchronous part over the directory d
BeginRun(d) ==
    LET acc == Accumulate(d)
    IN [pc |-> "running", playersMap |-> acc.playersMap,
        queue |-> RunStatements(acc),
        files |-> Len(ListFiles(d)),
        totalMatches |-> acc.totalMatches,
        totalPlayers |-> acc.totalPlayers, disturbed |-> FALSE, failed |-> FALSE]

\* the synchronous part: read the directory, build playersMap, queue the statements
NormalizeBegin ==
    /\ rebuild.pc = "idle"
    /\ rebuild' = BeginRun(dir)
    /\ UNCHANGED << dir, refined, hist, upsertVars, normVars, serverVars >>

\* the connection executes the next queued statement
NormalizeStatement ==
    /\ rebuild.pc = "running"
    /\ Head(rebuild.queue).op # "finalize"
    /\ refined' = Execute(refined, Head(rebuild.queue))
    /\ rebuild' = [rebuild EXCEPT !.queue = Tail(@)]
    /\ UNCHANGED << dir, hist, upsertVars, normVars, serverVars >>

\* the record of finished runs once the run in progress has finished
FinishedRuns ==
    IF rebuild.disturbed THEN NoHist
    ELSE [runs |-> IF hist.runs >= 1 THEN 2 ELSE 1,
          after |-> IF hist.runs >= 1 THEN hist.after ELSE refined,
          files |-> rebuild.files,
          totalMatches |-> rebuild.totalMatches,
          totalPlayers |-> rebuild.totalPlayers]

\* stmt.finalize's callback: close and resolve; the handler answers 200
NormalizeFinish ==
    /\ rebuild.pc = "running"
    /\ Head(rebuild.queue).op = "finalize"
    /\ hist' = FinishedRuns
    /\ rebuild' = Idle
    /\ UNCHANGED << dir, refined, upsertVars, normVars, serverVars >>

(* ------------------------------------------------------------------ *)
(* Other writers of playersrefined.db                                   *)
(* ------------------------------------------------------------------ *)

\* the script add_new_players: when it dies on a file, the inserts queued before
\* may or may not have reached the table
AddNewPlayers ==
    LET plan == AddPlan(refined, dir)
    IN /\ \E n \in 0 .. Len(plan.inserts) :
            /\ plan.crashed \/ n = Len(plan.inserts)
            /\ refined' = refined \cup { plan.inserts[i] : i \in 1 .. n }
       /\ Disturb
       /\ UNCHANGED << dir, upsertVars, normVars, serverVars >>

\* the classifier writes the country of a player
Classify(puuid, country) ==
    /\ \E r \in refined : r.puuid = puuid /\ r.country # country
    /\ refined' = { IF r.puuid = puuid THEN [r EXCEPT !.country = country] ELSE r
                    : r \in refined }
    /\ Disturb
    /\ UNCHANGED << dir, upsertVars, normVars, serverVars >>

\* the players the classifier has an answer for
Classified == { "p1" }

Next ==
    \/ SaveMatchNoId
    \/ \E matchId \in FileIds : SaveMatchExists(matchId)
    \/ \E req \in Requests : SaveMatchNew(req.matchId, req.body)
    \/ \E matchId \in FileIds : BrokenFileAppears(matchId)
    \/ NormalizeBegin
    \/ NormalizeStatement
    \/ NormalizeFinish
    \/ AddNewPlayers
    \/ \E puuid \in Classified, country \in Countries : Classify(puuid, country)

Spec == Init /\ [][Next]_vars

(* ------------------------------------------------------------------ *)
(* A second POST /api/normalize-players while a run is in progress      *)
(* ------------------------------------------------------------------ *)

\* the handler calls normalizePlayersByPuuid whatever else is going on: the second
\* run opens its own connection, reads the directory and queues its statements
SecondBegin ==
    /\ rebuild.pc = "running"
    /\ second.pc = "idle"
    /\ second' = BeginRun(dir)
    /\ UNCHANGED << dir, refined, rebuild, hist, reply, sent, graph, upsertVars, normVars >>

\* the second connection executes its next queued statement
SecondStatement ==
    /\ second.pc = "running"
    /\ Head(second.queue).op # "finalize"
    /\ refined' = Execute(refined, Head(second.queue))
    /\ second' = [second EXCEPT !.queue = Tail(@)]
    /\ Disturb
    /\ UNCHANGED << dir, reply, sent, graph, upsertVars, normVars >>

\* the second run resolves and its request is answered 200
SecondFinish ==
    /\ second.pc = "running"
    /\ Head(second.queue).op = "finalize"
    /\ second' = Idle
    /\ UNCHANGED << dir, refined, rebuild, hist, reply, sent, graph, upsertVars, normVars >>

NextOverlap ==
    \/ \E req \in Requests : SaveMatchNew(req.matchId, req.body)
    \/ NormalizeBegin
    \/ NormalizeStatement
    \/ NormalizeFinish
    \/ SecondBegin
    \/ SecondStatement
    \/ SecondFinish

SpecOverlap == Init /\ [][NextOverlap]_vars

(* ------------------------------------------------------------------ *)
(* POST /api/normalize-players when the storage fails                   *)
(* ------------------------------------------------------------------ *)

NormalizeReply(status) ==
    [handler |-> "normalize-players", status |-> status, request |-> NoRequest]

\* fs.readdirSync throws: the catch closes the connection and rejects, the handler
\* answers 500; the reset UPDATE, queued before, still runs
NormalizeReadFails ==
    /\ rebuild.pc = "idle"
    /\ refined' = ResetScores(refined)
    /\ reply' = NormalizeReply(500)
    /\ Disturb
    /\ UNCHANGED << dir, second, sent, graph, upsertVars, normVars >>

\* a queued INSERT fails (disk full, table locked by another connection). stmt.run
\* is given no callback, so sqlite3 emits 'error' on the statement and nobody
\* listens: the process dies of the uncaught error, or the error is dropped and the
\* run goes on. No path leads to reject.
NormalizeStatementFails ==
    /\ rebuild.pc = "running"
    /\ Head(rebuild.queue).op = "insert"
    /\ \/ rebuild' = [rebuild EXCEPT !.pc = "dead", !.queue = << >>, !.failed = TRUE]
       \/ rebuild' = [rebuild EXCEPT !.queue = Tail(@), !.failed = TRUE]
    /\ UNCHANGED << dir, refined, hist, upsertVars, normVars, serverVars >>

\* stmt.finalize's callback resolves, whatever happened to the statements, and the
\* handler answers 200
NormalizeResolve ==
    /\ rebuild.pc = "running"
    /\ Head(rebuild.queue).op = "finalize"
    /\ hist' = FinishedRuns
    /\ rebuild' = [Idle EXCEPT !.failed = rebuild.failed]
    /\ reply' = NormalizeReply(200)
    /\ UNCHANGED << dir, refined, second, sent, graph, upsertVars, normVars >>

NextFailure ==
    \/ \E req \in Requests : SaveMatchNew(req.matchId, req.body)
    \/ NormalizeBegin
    \/ NormalizeReadFails
    \/ NormalizeStatement
    \/ NormalizeStatementFails
    \/ NormalizeResolve

SpecFailure == Init /\ [][NextFailure]_vars

(* ------------------------------------------------------------------ *)
(* The table over a directory that gains and loses files                *)
(* ------------------------------------------------------------------ *)

\* a match file is taken out of the data directory by hand
MatchFileRemoved(matchId) ==
    /\ dir[matchId].kind # "absent"
    /\ dir' = [dir EXCEPT ![matchId] = NoFile]
    /\ Disturb
    /\ UNCHANGED << refined, upsertVars, normVars, serverVars >>

\* a run of add_new_players that reaches its end, started while no rebuild is running
AddNewPlayersCompleted ==
    /\ rebuild.pc = "idle"
    /\ ~AddPlan(refined, dir).crashed
    /\ AddNewPlayers

NextStore ==
    \/ \E req \in Requests : SaveMatchNew(req.matchId, req.body)
    \/ \E matchId \in FileIds : MatchFileRemoved(matchId)
    \/ AddNewPlayersCompleted
    \/ NormalizeBegin
    \/ NormalizeStatement
    \/ NormalizeFinish

SpecStore == Init /\ [][NextStore]_vars

(* ------------------------------------------------------------------ *)
(* Runs over a directory that does not change                           *)
(* ------------------------------------------------------------------ *)

\* the table before the first run: empty, or holding a classified player from
\* an earlier corpus
EarlierTables ==
    { {}, { Row("p1", << "Alice#EUW" >>, Fin(13, 10), Fin(39, 10), "HU", 3) } }

InitCorpus ==
    /\ dir \in [FileIds -> Documents \cup CompleteDocs \cup { NoFile }]
    /\ refined \in EarlierTables
    /\ rebuild = Idle
    /\ hist = NoHist
    /\ raw = << >>
    /\ pending = << >>
    /\ ledger = NoLedger
    /\ normIn = NoNum
    /\ normOut = NoNum
    /\ second = Idle
    /\ reply = NoReply
    /\ sent = [id \in FileIds |-> NoFile]
    /\ graph = NoGraph

NextCorpus ==
    \/ NormalizeBegin
    \/ NormalizeStatement
    \/ NormalizeFinish

SpecCorpus == InitCorpus /\ [][NextCorpus]_vars

(* ------------------------------------------------------------------ *)
(* normalizeOpScore on its own                                          *)
(* ------------------------------------------------------------------ *)

\* the raw scores tried: every hundredth from 0 up to past the top anchor, and the
\* values a division by a zero, absent or negative duration produces
MaxRawCents == 126000

RawScores ==
    { Fin(c, 100) : c \in 0 .. MaxRawCents }
        \cup { Int2Num(2000), Fin(-23647, 20), PosInf, NegInf, NaN, Undef }

InitNorm ==
    /\ dir = [id \in FileIds |-> NoFile]
    /\ refined = {}
    /\ rebuild = Idle
    /\ hist = NoHist
    /\ raw = << >>
    /\ pending = << >>
    /\ ledger = NoLedger
    /\ normIn \in RawScores
    /\ normOut = NoNum
    /\ second = Idle
    /\ reply = NoReply
    /\ sent = [id \in FileIds |-> NoFile]
    /\ graph = NoGraph

\* const normalizedOp = normalizeOpScore(avgRawOp)
ApplyNormalize ==
    /\ normOut = NoNum
    /\ normOut' = normalizeOpScore(normIn)
    /\ UNCHANGED << normIn, rebuildVars, upsertVars, serverVars >>

NextNorm == ApplyNormalize

SpecNorm == InitNorm /\ [][NextNorm]_vars

(* ------------------------------------------------------------------ *)
(* What a directory holds, read off the documents themselves            *)
(* ------------------------------------------------------------------ *)

\* the files that are match documents, and the malformed ones
CountedFiles(d)   == { f \in FileIds : d[f].kind = "match" }
MalformedFiles(d) == { f \in FileIds : d[f].kind \in MalformedKinds }

\* the participant entries a run reads: entries with a puuid, none of them behind a
\* null entry of their document
Observations(d) ==
    { << f, i >> \in FileIds \X (1 .. 10) :
        /\ d[f].kind = "match"
        /\ i <= Len(d[f].participants)
        /\ \A j \in 1 .. i : ~d[f].participants[j].isNull
        /\ ~Falsy(d[f].participants[i].puuid) }

Entry(d, o) == d[o[1]].participants[o[2]]

ObservedPuuids(d)     == { Entry(d, o).puuid : o \in Observations(d) }
ObservationsOf(d, id) == { o \in Observations(d) : Entry(d, o).puuid = id }
NamesSeen(d, id)      == { DisplayName(Entry(d, o)) : o \in ObservationsOf(d, id) }

\* the sum of f[x] over x in S, for numbers and for integers
RECURSIVE SumOver(_, _)
SumOver(S, f) ==
    IF S = {} THEN Zero
    ELSE LET x == CHOOSE y \in S : TRUE IN NumAdd(f[x], SumOver(S \ {x}, f))

RECURSIVE SumInt(_, _)
SumInt(S, f) ==
    IF S = {} THEN 0
    ELSE LET x == CHOOSE y \in S : TRUE IN f[x] + SumInt(S \ {x}, f)

RowsOf(table, id) == { r \in table : r.puuid = id }
SeqToSet(seq) == { seq[i] : i \in 1 .. Len(seq) }

\* a run has finished, and nothing but runs has touched table or directory since it began
Rebuilt == hist.runs >= 1 /\ rebuild.pc = "idle"

(* ------------------------------------------------------------------ *)
(* POST /api/save-player, on players.db                                 *)
(* ------------------------------------------------------------------ *)

\* parseFloat of a JSON value: a number as it is, NaN for a field that is missing
ParseFloat(x) == IF IsFin(x) THEN x ELSE NaN

\* row.match_count || 1
OrOne(count) == IF count = 0 THEN 1 ELSE count

\* the average of one more value: half way between the old average and the new value
HalfWay(oldAverage, oldCount, newValue) ==
    NumDiv(NumAdd(FromSql(oldAverage), ParseFloat(newValue)), Int2Num(2))

\* (row.score * oldCount + parseFloat(player.score)) / newCount
RunningAverage(oldAverage, oldCount, newValue) ==
    NumDiv(NumAdd(NumMul(FromSql(oldAverage), Int2Num(oldCount)), ParseFloat(newValue)),
           Int2Num(oldCount + 1))

\* db.get("SELECT * FROM players WHERE names = ?"): the first such row, 0 when none
SelectByName(table, name) ==
    IF \E i \in 1 .. Len(table) : table[i].names = name
    THEN CHOOSE i \in 1 .. Len(table) :
            /\ table[i].names = name
            /\ \A j \in 1 .. i - 1 : table[j].names # name
    ELSE 0

\* UPDATE players SET feedscore, opscore, country, match_count WHERE names = ?
UpdateByName(table, name, feedscore, opscore, country, match_count) ==
    [i \in 1 .. Len(table) |->
        IF table[i].names = name
        THEN [table[i] EXCEPT !.feedscore = ToSql(feedscore), !.opscore = ToSql(opscore),
                              !.country = country, !.match_count = match_count]
        ELSE table[i]]

\* INSERT OR REPLACE INTO players (names, feedscore, opscore, country, match_count)
\* VALUES (?, ?, ?, ?, 1): no puuid is given, and a NULL key conflicts with no row
InsertByName(table, player) ==
    Append(table, Row(NullText, player.name, ToSql(ParseFloat(player.feedscore)),
                      ToSql(ParseFloat(player.opscore)), player.country, 1))

\* what the request bodies are drawn from
FeedScores    == { Fin(-325, 100), Fin(9, 2) }
OpScores      == { Fin(3865, 100), Fin(1493, 100) }
SentCountries == { "Unknown" }
\* puuid: the participant a body was built from; the body itself does not carry it
Players ==
    [puuid : PlayerIds, name : Names, feedscore : FeedScores, opscore : OpScores,
     country : SentCountries]

MaxUpserts == 3

\* the requests that have written so far
Written == SumInt(Names, [name \in Names |-> ledger[name].count])

\* a request without a name: 400, nothing is read or written
SavePlayerNoName ==
    /\ UNCHANGED << rebuildVars, upsertVars, normVars, serverVars >>

\* the handler up to the callback of db.get: the row it read waits with the request;
\* the client has at most inFlight requests between their SELECT and their write
SavePlayerSelect(player, inFlight) ==
    /\ Len(pending) < inFlight
    /\ Written + Len(pending) < MaxUpserts
    /\ LET i == SelectByName(raw, player.name)
       IN pending' = Append(pending,
                            [player |-> player, found |-> i # 0,
                             row |-> IF i # 0 THEN raw[i]
                                     ELSE Row(NullText, "", Zero, Zero, NullText, 0)])
    /\ UNCHANGED << raw, ledger, rebuildVars, normVars, serverVars >>

\* the callback of db.get of the k-th waiting request: UPDATE the rows of the name
\* from the row read, or INSERT a row
SavePlayerWrite(k) ==
    /\ k \in 1 .. Len(pending)
    /\ LET player == pending[k].player
           row == pending[k].row
           oldCount == OrOne(row.match_count)
           newCount == oldCount + 1
           newFeedscore == RunningAverage(row.feedscore, oldCount, player.feedscore)
           newOpscore == RunningAverage(row.opscore, oldCount, player.opscore)
       IN /\ raw' = IF pending[k].found
                    THEN UpdateByName(raw, player.name, newFeedscore, newOpscore,
                                      player.country, newCount)
                    ELSE InsertByName(raw, player)
          /\ ledger' = [ledger EXCEPT
                          ![player.name].count = @ + 1,
                          ![player.name].feedscore = NumAdd(@, ParseFloat(player.feedscore)),
                          ![player.name].opscore = NumAdd(@, ParseFloat(player.opscore)),
                          ![player.name].puuids = @ \cup { player.puuid }]
    /\ pending' = [i \in 1 .. Len(pending) - 1 |-> IF i < k THEN pending[i] ELSE pending[i + 1]]
    /\ UNCHANGED << rebuildVars, normVars, serverVars >>

\* the classifier writes the country of the rows of a display name
ClassifyRaw(name, country) ==
    /\ \E i \in 1 .. Len(raw) : raw[i].names = name /\ raw[i].country # country
    /\ raw' = [i \in 1 .. Len(raw) |->
                 IF raw[i].names = name THEN [raw[i] EXCEPT !.country = country] ELSE raw[i]]
    /\ UNCHANGED << pending, ledger, rebuildVars, normVars, serverVars >>

NextUpsert ==
    \/ SavePlayerNoName
    \/ \E player \in Players : SavePlayerSelect(player, 1)
    \/ \E k \in 1 .. Len(pending) : SavePlayerWrite(k)
    \/ \E name \in Names, country \in Countries : ClassifyRaw(name, country)

\* requests one after the other: each is sent when the one before it has written
SpecUpsert == InitCommon /\ [][NextUpsert]_vars

\* saveAllPlayers sends the requests of a match at once (Promise.all over fetch): up
\* to MaxInFlight of them are between their SELECT and their write
MaxInFlight == 2

NextConcurrent ==
    \/ SavePlayerNoName
    \/ \E player \in Players : SavePlayerSelect(player, MaxInFlight)
    \/ \E k \in 1 .. Len(pending) : SavePlayerWrite(k)
    \/ \E name \in Names, country \in Countries : ClassifyRaw(name, country)

SpecConcurrent == InitCommon /\ [][NextConcurrent]_vars

(* ------------------------------------------------------------------ *)
(* Claims                                                               *)
(* ------------------------------------------------------------------ *)

\* C1: a second full rebuild on the unchanged directory, with no other writer in
\* between, leaves the players table exactly as the first one left it.
RebuildIdempotent ==
    (hist.runs = 2 /\ rebuild.pc = "idle") => refined = hist.after

\* C1 witness: two runs in a row, over a table that holds a player seen twice and a
\* row of a player the runs never create.
RebuiltTwice ==
    /\ hist.runs = 2 /\ rebuild.pc = "idle"
    /\ \E r \in refined : r.match_count >= 2
    /\ \E r \in refined : r.match_count = 0

\* the rows of the players a run over d creates
Aggregates(table, d) == { r \in table : r.puuid \in ObservedPuuids(d) }

\* the sum of match_count over the aggregates built from the directory
MatchCountSum == SumInt(Aggregates(refined, dir), [r \in Aggregates(refined, dir) |-> r.match_count])

\* every counted document holds exactly ten entries that carry a puuid, none of them null
TenEach ==
    \A f \in CountedFiles(dir) :
        /\ Len(dir[f].participants) = 10
        /\ Cardinality({ o \in Observations(dir) : o[1] = f }) = 10

\* C2 as stated: after a full rebuild the match_counts sum to 10 for each counted document.
TenPerCountedMatch == Rebuilt => MatchCountSum = 10 * hist.totalMatches

\* C2, what the run does instead: the match_counts sum to the number of participant
\* entries the run read (entries with a puuid, before any null entry of their
\* document); that is 10 for each counted document when every counted document holds
\* exactly ten such entries.
MatchCountSumIsObservations ==
    Rebuilt =>
        /\ MatchCountSum = Cardinality(Observations(dir))
        /\ TenEach => MatchCountSum = 10 * hist.totalMatches

\* C2, the case the claim has in mind: a rebuild over two complete match records.
RebuiltTwoCompleteMatches ==
    /\ Rebuilt /\ TenEach
    /\ hist.totalMatches = 2
    /\ MatchCountSum = 20

\* the participant entries of the counted documents that carry a puuid
Entries(d) ==
    { << f, i >> \in FileIds \X (1 .. 10) :
        /\ d[f].kind = "match"
        /\ i <= Len(d[f].participants)
        /\ ~d[f].participants[i].isNull
        /\ ~Falsy(d[f].participants[i].puuid) }
EntriesOf(d, id) == { o \in Entries(d) : Entry(d, o).puuid = id }

OneRowPerPlayer ==
    Rebuilt =>
        \A id \in ObservedPuuids(dir) :
            /\ Cardinality(RowsOf(refined, id)) = 1
            /\ \A r \in RowsOf(refined, id) :
                /\ SeqToSet(r.names) = NamesSeen(dir, id)
                /\ r.match_count = Cardinality(ObservationsOf(dir, id))

\* C3, the case the claim has in mind: a rebuilt table with a player read in two
\* documents under two names.
RebuiltPlayerWithTwoNames ==
    /\ Rebuilt
    /\ \E id \in ObservedPuuids(dir) :
        /\ Cardinality(NamesSeen(dir, id)) = 2
        /\ Cardinality({ o[1] : o \in ObservationsOf(dir, id) }) = 2
        /\ \E r \in RowsOf(refined, id) : Len(r.names) = 2 /\ r.match_count = 2

\* the per-player averages, computed from the documents
FeedAverage(d, id) ==
    NumDiv(SumOver(ObservationsOf(d, id),
                   [o \in ObservationsOf(d, id) |-> FeedScore(Entry(d, o))]),
           Int2Num(Cardinality(ObservationsOf(d, id))))
RawOpAverage(d, id) ==
    NumDiv(SumOver(ObservationsOf(d, id),
                   [o \in ObservationsOf(d, id) |->
                        RawOpScore(Entry(d, o), DurationMinutes(d[o[1]]))]),
           Int2Num(Cardinality(ObservationsOf(d, id))))
\* the average of the per-match grades: the computation the claim rules out
GradeAverage(d, id) ==
    NumDiv(SumOver(ObservationsOf(d, id),
                   [o \in ObservationsOf(d, id) |->
                        normalizeOpScore(RawOpScore(Entry(d, o), DurationMinutes(d[o[1]])))]),
           Int2Num(Cardinality(ObservationsOf(d, id))))

\* C4: after a full rebuild every player's stored feedscore is the average of the
\* player's per-match feedscores, and the stored opscore is normalizeOpScore applied
\* once to the average of the player's per-match raw opscores.
AveragedThenNormalized ==
    Rebuilt =>
        \A id \in ObservedPuuids(dir) : \A r \in RowsOf(refined, id) :
            /\ r.feedscore = ToSql(FeedAverage(dir, id))
            /\ r.opscore = normalizeOpScore(RawOpAverage(dir, id))

\* C4 witness: a rebuilt player with two games whose grade of the average is neither
\* the average of the grades nor the grade of the grade.
RebuiltAverageOfTwo ==
    /\ Rebuilt
    /\ \E id \in ObservedPuuids(dir) : \E r \in RowsOf(refined, id) :
        /\ r.match_count = 2
        /\ IsFin(RawOpAverage(dir, id))
        /\ r.opscore # GradeAverage(dir, id)
        /\ r.opscore # normalizeOpScore(r.opscore)
        /\ NumGt(r.opscore, Zero) /\ NumLt(r.opscore, Int2Num(10))

\* C5 as stated: no step other than the classifier's changes a country the classifier
\* wrote, in a row that exists before and after the step, in either players table.
CountryKeptByCore ==
    [][ \/ \E puuid \in Classified, country \in Countries : Classify(puuid, country)
        \/ \E name \in Names, country \in Countries : ClassifyRaw(name, country)
        \/ /\ \A r \in refined : \A q \in refined' :
                 (r.country \in Countries /\ q.puuid = r.puuid) => q.country = r.country
           /\ \A i \in 1 .. Len(raw) :
                 (raw[i].country \in Countries /\ i <= Len(raw'))
                     => raw'[i].country = raw[i].country ]_vars

\* the directory without its malformed files
WithoutMalformed(d) == [f \in FileIds |-> IF IsMalformed(d[f]) THEN NoFile ELSE d[f]]

PlayableObservationsOf(d, id) ==
    { o \in ObservationsOf(d, id) : NumGt(d[o[1]].gameDuration, Zero) }

\* C7 as stated: no infinite or undefined value reaches an aggregate: in the map a
\* run builds, every opscoreSum is a finite number.
NoInfiniteAggregate ==
    \A i \in 1 .. Len(rebuild.playersMap) : IsFin(rebuild.playersMap[i].opscoreSum)

\* C7, the exclusion it rests on: every opscoreSum is the sum of the raw opscores of
\* the player's entries in documents with a positive duration. (Fails as well: a
\* negative duration is divided by like any other.)
ZeroDurationExcluded ==
    (rebuild.pc = "running" /\ ~rebuild.disturbed) =>
        \A i \in 1 .. Len(rebuild.playersMap) :
            LET e == rebuild.playersMap[i]
                S == PlayableObservationsOf(dir, e.puuid)
            IN e.opscoreSum =
                 SumOver(S, [o \in S |-> RawOpScore(Entry(dir, o), DurationMinutes(dir[o[1]]))])

\* the rows of a display name in players.db
RawRowsOf(name) == { i \in 1 .. Len(raw) : raw[i].names = name }

\* C10: with save-player requests handled one after the other, once n requests for a
\* display name have written there is exactly one row of that name, its match_count is
\* n and each score times n is the sum of the n values sent (so the first request
\* stores its values with count 1, and each later one stores
\* (oldAverage * oldCount + newValue) / (oldCount + 1)).
RunningAverageOfAll ==
    \A name \in Names :
        ledger[name].count >= 1 =>
            /\ Cardinality(RawRowsOf(name)) = 1
            /\ \A i \in RawRowsOf(name) :
                /\ raw[i].match_count = ledger[name].count
                /\ NumMul(raw[i].feedscore, Int2Num(raw[i].match_count)) = ledger[name].feedscore
                /\ NumMul(raw[i].opscore, Int2Num(raw[i].match_count)) = ledger[name].opscore

\* C10 witness: three requests for one name have written, not all with the same values.
ThreeUpsertsOfOneName ==
    \E name \in Names : \E i \in RawRowsOf(name) :
        /\ ledger[name].count = 3
        /\ raw[i].match_count = 3
        /\ raw[i].feedscore \notin FeedScores
        /\ raw[i].opscore \notin OpScores

\* the raw score lies strictly between anchor i + 1 and anchor i
StrictlyInside(x, i) ==
    NumLt(thresholds[i + 1].score, x) /\ NumLt(x, thresholds[i].score)

\* the straight line through anchor i + 1 and anchor i, at x, not rounded
LineAt(x, i) ==
    LET upper == thresholds[i]
        lower == thresholds[i + 1]
    IN NumAdd(lower.grade,
              NumDiv(NumMul(NumSub(x, lower.score), NumSub(upper.grade, lower.grade)),
                     NumSub(upper.score, lower.score)))

\* g is y rounded to 2 decimals, halves upwards
RoundedTo2(g, y) ==
    LET h == NumMul(g, Int2Num(100))
        z == NumMul(y, Int2Num(100))
    IN /\ IsFin(h) /\ h.d = 1
       /\ NumLe(NumSub(h, Fin(1, 2)), z)
       /\ NumLt(z, NumAdd(h, Fin(1, 2)))

\* C8: normalizeOpScore returns 10 at or above the top anchor, 0 at or below the
\* bottom anchor, the anchor's grade at each of the 11 anchor scores, and a value
\* from 0 to 10 for every input.
ClampsAndAnchors ==
    normOut # NoNum =>
        /\ NumGe(normIn, TopAnchor) => normOut = Int2Num(10)
        /\ NumLe(normIn, BottomAnchor) => normOut = Zero
        /\ \A i \in 1 .. Len(thresholds) :
              normIn = thresholds[i].score => normOut = thresholds[i].grade
        /\ NumLe(Zero, normOut) /\ NumLe(normOut, Int2Num(10))

\* C8 witness: the score of an anchor inside the table was normalized to its grade.
NormalizedMedianAnchor ==
    /\ normIn = Fin(42493, 100)
    /\ NormalizeBranch(normIn) = "bracket"
    /\ normOut = Int2Num(4)

\* C9 as stated: a raw score strictly between two adjacent anchors gets a grade
\* strictly between the two anchor grades, the rounded interpolation.
StrictlyBetweenGrades ==
    normOut # NoNum =>
        \A i \in 1 .. Len(thresholds) - 1 :
            StrictlyInside(normIn, i) =>
                /\ NumLt(thresholds[i + 1].grade, normOut)
                /\ NumLt(normOut, thresholds[i].grade)
                /\ RoundedTo2(normOut, LineAt(normIn, i))

\* C9, amended: a raw score strictly between two adjacent anchors gets the linear
\* interpolation between them rounded to 2 decimals, which lies between the two
\* anchor grades, either of them included.
BetweenGradesRounded ==
    normOut # NoNum =>
        \A i \in 1 .. Len(thresholds) - 1 :
            StrictlyInside(normIn, i) =>
                /\ NumLe(thresholds[i + 1].grade, normOut)
                /\ NumLe(normOut, thresholds[i].grade)
                /\ RoundedTo2(normOut, LineAt(normIn, i))

\* C9 witness: the midpoint of the anchors 424.93 and 512.91 was normalized to 4.5.
NormalizedMidpoint ==
    /\ normIn = Fin(46892, 100)
    /\ StrictlyInside(normIn, 6)
    /\ normOut = Fin(45, 10)

\* the players whose requests have written row i of players.db
WrittenBy(i) == ledger[raw[i].names].puuids

\* C11 as stated: save-player finds the row by the player identifier: no row is
\* written by requests of two players, and the requests of one player write one row.
KeyedByIdentifier ==
    /\ \A i \in 1 .. Len(raw) : Cardinality(WrittenBy(i)) <= 1
    /\ \A id \in PlayerIds :
          Cardinality({ i \in 1 .. Len(raw) : id \in WrittenBy(i) }) <= 1

\* C12 as stated: however the SELECTs and writes of concurrent save-player requests
\* interleave, once all have written there is exactly one row per name, its
\* match_count is the number of requests and its averages include every value.
NoLostUpdate ==
    pending = << >> =>
        \A name \in Names :
            ledger[name].count >= 1 =>
                /\ Cardinality(RawRowsOf(name)) = 1
                /\ \A i \in RawRowsOf(name) :
                    /\ raw[i].match_count = ledger[name].count
                    /\ NumMul(raw[i].feedscore, Int2Num(ledger[name].count)) = ledger[name].feedscore
                    /\ NumMul(raw[i].opscore, Int2Num(ledger[name].count)) = ledger[name].opscore

\* C12, the lost update alone: with one row of the name already there, its
\* match_count is the number of requests that have written.
NoLostCount ==
    pending = << >> =>
        \A name \in Names : \A i \in RawRowsOf(name) :
            Cardinality(RawRowsOf(name)) = 1 => raw[i].match_count = ledger[name].count

\* C13 as stated: while a full rebuild is in progress a second rebuild request is
\* turned away: no second run is ever in progress next to the first.
SecondRunRejected == ~(rebuild.pc = "running" /\ second.pc = "running")

\* C13, what the interleaving does: two runs in progress over different readings of
\* the directory, their statements mixed on one table.
StatementsNotInterleaved ==
    [][ (rebuild.pc = "running" /\ second.pc = "running" /\ rebuild.queue # BeginRun(dir).queue)
            => refined' = refined ]_vars

\* C14 as stated: a run in which a row write failed ends with the promise rejected
\* and the request answered 500.
FailureReported ==
    (rebuild.failed /\ rebuild.pc # "running") => reply = NormalizeReply(500)

\* C14, its second half: the request is not answered 200 while a row of the run is
\* not in the table.
NoSuccessWithUnwrittenRows ==
    [][ reply' = NormalizeReply(200) /\ rebuild.pc = "running"
            => \A i \in 1 .. Len(rebuild.playersMap) :
                   AggregateRow(rebuild.playersMap[i]) \in refined ]_vars

\* C15 as stated, its lower bound: between runs every row of a player with a puuid
\* has a match_count of at least 1.
MatchCountAtLeastOne ==
    rebuild.pc = "idle" =>
        \A r \in refined : ~Falsy(r.puuid) => r.match_count >= 1

\* C15, the count itself: between runs, over files that are all still there, every
\* row's match_count is the number of the player's participant entries.
MatchCountIsContributions ==
    [][ (\A id \in FileIds : dir[id].kind = "absent" \/ dir'[id] = dir[id])
          => (rebuild'.pc = "idle" =>
                \A r \in refined' :
                    ~Falsy(r.puuid) => r.match_count = Cardinality(EntriesOf(dir', r.puuid))) ]_vars

\* a stored opscore that cannot be a grade: grades end at 10
HoldsRawScore(r) == IsFin(r.opscore) /\ NumGt(r.opscore, Int2Num(10))
\* a stored opscore that is the grade of the player's raw average and not that average
HoldsGrade(r) ==
    /\ r.match_count >= 1
    /\ IsFin(RawOpAverage(dir, r.puuid))
    /\ r.opscore = normalizeOpScore(RawOpAverage(dir, r.puuid))
    /\ r.opscore # RawOpAverage(dir, r.puuid)

\* C16 as stated: the opscore column has one representation: between runs the table
\* never holds a row with a raw score next to a row with a normalized grade.
OneRepresentation ==
    rebuild.pc = "idle" =>
        ~ \E r1, r2 \in refined : HoldsRawScore(r1) /\ HoldsGrade(r2)

(* ------------------------------------------------------------------ *)
(* The graph builder                                                    *)
(* ------------------------------------------------------------------ *)

\* the players of one match document: the identifiers of its participant entries
GraphParticipants(doc) ==
    IF doc.kind # "match" THEN {}
    ELSE { doc.participants[i].puuid :
             i \in { j \in 1 .. Len(doc.participants) :
                       /\ ~doc.participants[j].isNull
                       /\ ~Falsy(doc.participants[j].puuid) } }

\* every unordered pair of distinct players of a set
Pairs(S) == { e \in { {a, b} : a \in S, b \in S } : Cardinality(e) = 2 }

\* one more match: the counter of every pair of its players goes up by one
CountMatch(weight, doc) ==
    LET seen == Pairs(GraphParticipants(doc))
    IN [e \in DOMAIN weight \cup seen |->
            (IF e \in DOMAIN weight THEN weight[e] ELSE 0) + (IF e \in seen THEN 1 ELSE 0)]

\* the pass over the directory, file by file
RECURSIVE CoPlay(_, _, _)
CoPlay(weight, d, id) ==
    IF id > MaxFiles THEN weight
    ELSE CoPlay(CountMatch(weight, d[id]), d, id + 1)

GraphPlayers(d) == UNION { GraphParticipants(d[id]) : id \in FileIds }

\* --min-weight: edges below the threshold are dropped
MinWeightAbove(weight, minWeight) ==
    [e \in { x \in DOMAIN weight : weight[x] > minWeight } |-> weight[e]]
MinWeightFilter(weight, minWeight) ==
    [e \in { x \in DOMAIN weight : weight[x] >= minWeight } |-> weight[e]]

\* --connected-only: nodes without an edge are dropped
ConnectedOnlyFilter(nodes, weight) ==
    { n \in nodes : \E e \in DOMAIN weight : n \in e }

BuildGraph(d, minWeight, connectedOnly) ==
    LET weight == MinWeightFilter(CoPlay([e \in {} |-> 0], d, 1), minWeight)
    IN [built |-> TRUE,
        nodes |-> IF connectedOnly THEN ConnectedOnlyFilter(GraphPlayers(d), weight)
                  ELSE GraphPlayers(d),
        weight |-> weight,
        minWeight |-> minWeight, connectedOnly |-> connectedOnly, corpus |-> d]

MaxWeight == 2

\* the builder run from the command line with arguments of the caller's choice
BuildGraphCommand(minWeight, connectedOnly) ==
    /\ graph' = BuildGraph(dir, minWeight, connectedOnly)
    /\ UNCHANGED << rebuildVars, upsertVars, normVars, second, reply, sent >>

\* POST /api/generate-graph: the builder with --connected-only --min-weight 2, then 200
GenerateGraph ==
    /\ graph' = BuildGraph(dir, 2, TRUE)
    /\ reply' = [handler |-> "generate-graph", status |-> 200, request |-> NoRequest]
    /\ UNCHANGED << rebuildVars, upsertVars, normVars, second, sent >>

\* matches of two and three players out of three, and a document without info
ThirdPlayer == "p3"
GraphLineups ==
    { << Strong("p1", "Alice", "EUW"), Weak("p2", "Bob", "EUW") >>,
      << Weak("p1", "Alice", "EUW"), Strong(ThirdPlayer, "Cid", "EUW") >>,
      << Strong("p1", "Alice", "EUW"), Weak("p2", "Bob", "EUW"),
         Weak(ThirdPlayer, "Cid", "EUW") >> }
GraphBodies ==
    { MatchDoc(Int2Num(1800), l) : l \in GraphLineups } \cup { Malformed("noInfo") }

NextGraph ==
    \/ \E matchId \in FileIds, body \in GraphBodies : SaveMatchNew(matchId, body)
    \/ \E minWeight \in 1 .. MaxWeight, connectedOnly \in BOOLEAN :
            BuildGraphCommand(minWeight, connectedOnly)
    \/ GenerateGraph

SpecGraph == Init /\ [][NextGraph]_vars

\* in how many documents of a directory two players appear together
CoOccurrence(d, e) ==
    Cardinality({ id \in FileIds : e \subseteq GraphParticipants(d[id]) })

\* C17: a built graph has an edge for exactly the pairs of players who appear together
\* in at least minWeight documents, weighted with that number; with connected-only its
\* nodes are the players with an edge, without it all players; and with minWeight 2
\* over documents in which no pair appears together twice it has no edge and, with
\* connected-only, no node.
GraphFiltered ==
    graph.built =>
        LET d == graph.corpus
            kept == { e \in Pairs(GraphPlayers(d)) : CoOccurrence(d, e) >= graph.minWeight }
        IN /\ DOMAIN graph.weight = kept
           /\ \A e \in kept : graph.weight[e] = CoOccurrence(d, e)
           /\ graph.nodes = IF graph.connectedOnly
                             THEN { n \in GraphPlayers(d) : \E e \in kept : n \in e }
                             ELSE GraphPlayers(d)
           /\ ( /\ graph.minWeight = 2
                /\ \A e \in Pairs(GraphPlayers(d)) : CoOccurrence(d, e) <= 1 )
                => /\ DOMAIN graph.weight = {}
                   /\ graph.connectedOnly => graph.nodes = {}

\* C17 witness: built with --connected-only --min-weight 2 from two documents that
\* share one pair of players: that edge stays with weight 2, the third player goes.
GraphKeepsThePairSeenTwice ==
    /\ graph.built /\ graph.minWeight = 2 /\ graph.connectedOnly
    /\ ThirdPlayer \in GraphPlayers(graph.corpus)
    /\ graph.nodes = { "p1", "p2" }
    /\ DOMAIN graph.weight = { { "p1", "p2" } }
    /\ graph.weight[{ "p1", "p2" }] = 2

\* C17 witness of the special case: three players, no pair together twice, threshold 2
GraphEmptyBelowThreshold ==
    /\ graph.built /\ graph.minWeight = 2 /\ graph.connectedOnly
    /\ Cardinality(GraphPlayers(graph.corpus)) = 3
    /\ graph.nodes = {}

\* C18 as stated: for every player of a run the average normalizeOpScore is called
\* with leaves through a clamp or a bracket, never through the fallback return.
FallbackNeverReached ==
    \A i \in 1 .. Len(rebuild.playersMap) :
        LET data == rebuild.playersMap[i]
        IN NormalizeBranch(NumDiv(data.opscoreSum, Int2Num(data.match_count))) # "fallback"

(* ------------------------------------------------------------------ *)
(* POST /api/save-match with its response                               *)
(* ------------------------------------------------------------------ *)

\* metadata.matchId of a request that carries none
NoMatchId == 0

\* the status the handler answers a request with, given the directory it finds
SaveMatchStatus(d, request) ==
    IF request.matchId = NoMatchId THEN 400
    ELSE IF d[request.matchId].kind # "absent" THEN 200
    ELSE 201

\* the directory after the request, were the handler to write without looking
SaveMatchOverwrites(d, request) ==
    IF request.matchId = NoMatchId THEN d
    ELSE [d EXCEPT ![request.matchId] = request.body]
\* the directory after the request
SaveMatchStores(d, request) ==
    IF SaveMatchStatus(d, request) = 201
    THEN [d EXCEPT ![request.matchId] = request.body]
    ELSE d

\* the whole handler: existsSync, writeFileSync and the response in one turn of the
\* event loop; sent keeps the first body each match id was posted with
SaveMatch(request) ==
    /\ dir' = SaveMatchStores(dir, request)
    /\ reply' = [handler |-> "save-match", status |-> SaveMatchStatus(dir, request),
                 request |-> request]
    /\ sent' = IF request.matchId # NoMatchId /\ sent[request.matchId] = NoFile
               THEN [sent EXCEPT ![request.matchId] = request.body]
               ELSE sent
    /\ IF dir' # dir THEN Disturb ELSE UNCHANGED << rebuild, hist >>
    /\ UNCHANGED << refined, upsertVars, normVars, second, graph >>

\* requests with and without a match id; two of the bodies are different matches
MatchRequests ==
    [matchId : {NoMatchId} \cup FileIds,
     body : { MatchDoc(Int2Num(1800), MixedLineup), MatchDoc(Int2Num(1800), SecondName),
              Malformed("noInfo") }]

NextMatch == \E request \in MatchRequests : SaveMatch(request)

SpecMatch == Init /\ [][NextMatch]_vars

\* C19: after every request each stored document is the first body its match id was
\* posted with; a request without match id is answered 400 and writes nothing, a
\* request for a match id posted before is answered 200 and leaves the file as it
\* is, and the first request of a match id is answered 201 and its body is the file.
FirstWriterWins ==
    [][ /\ \A id \in FileIds : dir'[id] = sent'[id]
        /\ reply' # reply =>
              LET id == reply'.request.matchId
              IN /\ reply'.handler = "save-match"
                 /\ id = NoMatchId => reply'.status = 400 /\ dir' = dir
                 /\ (id # NoMatchId /\ sent[id] # NoFile) =>
                        reply'.status = 200 /\ dir' = dir
                 /\ (id # NoMatchId /\ sent[id] = NoFile) =>
                        /\ reply'.status = 201
                        /\ dir' = [dir EXCEPT ![id] = reply'.request.body] ]_vars

\* C19 witness: a second request with another body was answered 200 and the file
\* still holds the first body.
SecondWriterAnswered200 ==
    /\ reply.handler = "save-match" /\ reply.status = 200
    /\ reply.request.body # sent[reply.request.matchId]
    /\ dir[reply.request.matchId] = sent[reply.request.matchId]

\* C20 as stated: in the map a run builds, each document of the directory is in or
\* out as a whole: there is a set of documents such that totalMatches is their number
\* and every player's match_count is the number of the player's participant entries
\* in them, a player without such an entry having no aggregate.
AllOrNothing ==
    (rebuild.pc = "running" /\ ~rebuild.disturbed) =>
        \E counted \in SUBSET FileIds :
            /\ rebuild.totalMatches = Cardinality(counted)
            /\ \A id \in { Entry(dir, o).puuid : o \in Entries(dir) } :
                 LET n == Cardinality({ o \in EntriesOf(dir, id) : o[1] \in counted })
                     held == { i \in 1 .. Len(rebuild.playersMap) :
                                 rebuild.playersMap[i].puuid = id }
                 IN IF n = 0 THEN held = {}
                    ELSE \E i \in held : rebuild.playersMap[i].match_count = n

====
